---- MODULE Spec2Model ----
(***************************************************************************)
(* SFU token issuance / verification and the SFU room registry of          *)
(* backend/endpoints/sfu.py, over a shared Redis sync_cache.                    *)
(*                                                                         *)
(* Python strings are sequences of symbols (<<>> is ""), so that strip()   *)
(* and emptiness are computed.  JSON / claim values are tagged records.    *)
(***************************************************************************)
EXTENDS Integers, Sequences, FiniteSets, TLC

VARIABLES
    now,        \* the wall clock, in seconds (time.time())
    ROMM_SFU_INTERNAL_SECRET,  \* ROMM_SFU_INTERNAL_SECRET as configured
    sync_cache,      \* Redis: key -> [val, exp]; a key is live while now < exp
    nextUuid,   \* how many uuid4() values have been drawn
    issued,     \* the tokens mint_sfu_token has returned: set of [user, tok]
    crafted,    \* tokens a caller holds that mint_sfu_token did not return
    calls,      \* per relay node: the verify call it has in flight
    consumed,   \* history: jti -> number of verify(consume) calls that returned 200
    listing,    \* the rooms/list call in flight
    nUpserts,   \* how many room upserts have been written
    registry,   \* history: room name -> the last write to its record
    resp        \* the response of the step just taken (NoResp if it returned nothing)

vars == <<now, ROMM_SFU_INTERNAL_SECRET, sync_cache, nextUuid, issued, crafted, calls, consumed, listing,
          nUpserts, registry, resp>>

----------------------------------------------------------------------------
(* Program constants.                                                      *)

SFU_READ_TOKEN_TTL_SECONDS == 900
SFU_WRITE_TOKEN_TTL_SECONDS == 30
SFU_TOKEN_CLOCK_SKEW_SECONDS == 5
SFU_ROOM_TTL_SECONDS == 60
SFU_TOKEN_ISSUER == <<"romm:sfu">>
SFU_JTI_REDIS_KEY_PREFIX == "sfu:auth:jti:"
SFU_ROOM_REDIS_KEY_PREFIX == "sfu:room:"

(* Bounds of the model.                                                    *)
MaxTokens == 2
MaxTime == 1000
MaxUpserts == 2

----------------------------------------------------------------------------
(* Python values.                                                          *)

StrV(s) == [t |-> "str", s |-> s, n |-> 0]
IntV(n) == [t |-> "int", s |-> <<>>, n |-> n]
BoolV(b) == [t |-> "bool", s |-> <<>>, n |-> IF b THEN 1 ELSE 0]
NoneV == [t |-> "none", s |-> <<>>, n |-> 0]

\* bool(v) of a Python value
Truthy(v) ==
    CASE v.t = "str" -> v.s # <<>>
      [] v.t = "int" -> v.n # 0
      [] v.t = "bool" -> v.n # 0
      [] v.t = "dict" -> DOMAIN v.d # {}
      [] OTHER -> FALSE

IsStr(v) == v.t = "str"

\* dict.get(k): the value under k, None when k is absent
Get(d, k) == IF k \in DOMAIN d THEN d[k] ELSE NoneV

WS == {" "}

RECURSIVE LStrip(_)
LStrip(s) == IF s # <<>> /\ Head(s) \in WS THEN LStrip(Tail(s)) ELSE s

RECURSIVE RStrip(_)
RStrip(s) ==
    IF s # <<>> /\ s[Len(s)] \in WS THEN RStrip(SubSeq(s, 1, Len(s) - 1)) ELSE s

\* str.strip()
Strip(s) == RStrip(LStrip(s))

DigitVal(c) ==
    CASE c = "0" -> 0 [] c = "1" -> 1 [] c = "2" -> 2 [] c = "3" -> 3
      [] c = "4" -> 4 [] c = "5" -> 5 [] c = "6" -> 6 [] c = "7" -> 7
      [] c = "8" -> 8 [] c = "9" -> 9 [] OTHER -> -1

RECURSIVE ParseDigits(_, _)
ParseDigits(s, acc) ==
    IF s = <<>> THEN acc
    ELSE IF DigitVal(Head(s)) < 0 THEN -1
    ELSE ParseDigits(Tail(s), 10 * acc + DigitVal(Head(s)))

\* int(v): [ok, n]; not ok stands for the ValueError / TypeError int() raises
IntOf(v) ==
    CASE v.t = "int" -> [ok |-> TRUE, n |-> v.n]
      [] v.t = "str" ->
            LET p == IF v.s = <<>> THEN -1 ELSE ParseDigits(v.s, 0)
            IN  [ok |-> p >= 0, n |-> p]
      [] OTHER -> [ok |-> FALSE, n |-> 0]

----------------------------------------------------------------------------
(* Optional strings (str | None).                                          *)

NoneS == [some |-> FALSE, s |-> <<>>]
SomeS(s) == [some |-> TRUE, s |-> s]

----------------------------------------------------------------------------
(* The service secret.                                                     *)

\* the values ROMM_SFU_INTERNAL_SECRET may be configured to ("" when unset)
ConfiguredSecrets == {<<>>, <<" ">>, <<" ", "k">>}

\* the x-romm-sfu-secret header a caller sends
Headers == {NoneS, SomeS(<<>>), SomeS(<<"k">>), SomeS(<<" ", "k">>)}

\* the caller presented the secret that is configured
PresentedSecret(provided) ==
    /\ Strip(ROMM_SFU_INTERNAL_SECRET) # <<>>
    /\ provided.some
    /\ provided.s = Strip(ROMM_SFU_INTERNAL_SECRET)

\* the detail of the HTTPException _require_sfu_internal_secret raises
SecretDetail(status) ==
    IF status = 503 THEN "SFU internal secret not configured" ELSE "unauthorized"

\* a check that lets every caller through
RequireSecretOpen(provided) == 0

\* a check that compares with the secret as configured, not stripped
RequireSecretUnstripped(provided) ==
    LET expected == ROMM_SFU_INTERNAL_SECRET
    IN  IF expected = <<>> THEN 503
        ELSE IF ~provided.some \/ provided.s = <<>> \/ provided.s # expected THEN 401
        ELSE 0

\* _require_sfu_internal_secret: 0 when the caller is let through, else the
\* status of the HTTPException
_require_sfu_internal_secret(provided) ==
    LET expected == Strip(ROMM_SFU_INTERNAL_SECRET)
    IN  IF expected = <<>> THEN 503
        ELSE IF ~provided.some \/ provided.s = <<>> \/ provided.s # expected THEN 401
        ELSE 0

----------------------------------------------------------------------------
(* Tokens: [sig, claims].  sig names the key the token is signed with.     *)

TypeRead == StrV(<<"sfu:read">>)
TypeWrite == StrV(<<"sfu:write">>)
TypeLegacy == StrV(<<"sfu">>)

Accept(c) == [ok |-> TRUE, detail |-> "", claims |-> c]
Reject(why) == [ok |-> FALSE, detail |-> why, claims |-> [none |-> TRUE]]

\* a JTI requirement applied to every token type
JtiCheckAllTypes(c) == Truthy(Get(c, "jti")) /\ IsStr(Get(c, "jti"))

\* the JTI requirement of _decode_and_validate_sfu_jwt
JtiCheck(c) ==
    IF Get(c, "type") = TypeWrite \/ Get(c, "type") = TypeLegacy
    THEN Truthy(Get(c, "jti")) /\ IsStr(Get(c, "jti"))
    ELSE TRUE

\* an exp check without the skew allowance
ExpiredNoSkew(exp, t) == t >= exp

\* an exp check with the skew on the wrong side
ExpiredEarly(exp, t) == t + SFU_TOKEN_CLOCK_SKEW_SECONDS >= exp

\* the exp check of _decode_and_validate_sfu_jwt at time t
Expired(exp, t) == t - SFU_TOKEN_CLOCK_SKEW_SECONDS >= exp

\* a validation that checks the signature and no claim
ValidateSignatureOnly(token, t) ==
    IF token.sig # "oct_key" THEN Reject("invalid token") ELSE Accept(token.claims)

\* _decode_and_validate_sfu_jwt at time t
_decode_and_validate_sfu_jwt(token, t) ==
    LET c == token.claims
        nbf == IntOf(Get(c, "nbf"))
        exp == IntOf(Get(c, "exp"))
    IN  IF token.sig # "oct_key" THEN Reject("invalid token")
        ELSE IF Get(c, "nbf") # NoneV /\ ~nbf.ok THEN Reject("invalid nbf")
        ELSE IF Get(c, "nbf") # NoneV /\ t + SFU_TOKEN_CLOCK_SKEW_SECONDS < nbf.n
             THEN Reject("jwt not active")
        ELSE IF Get(c, "exp") = NoneV THEN Reject("missing exp")
        ELSE IF ~exp.ok THEN Reject("invalid exp")
        ELSE IF Expired(exp.n, t) THEN Reject("jwt expired")
        ELSE IF Get(c, "iss") # StrV(SFU_TOKEN_ISSUER) THEN Reject("invalid issuer")
        ELSE IF Get(c, "type") \notin {TypeLegacy, TypeRead, TypeWrite}
             THEN Reject("invalid token type")
        ELSE IF ~Truthy(Get(c, "sub")) \/ ~IsStr(Get(c, "sub")) THEN Reject("missing sub")
        ELSE IF ~JtiCheck(c) THEN Reject("missing jti")
        ELSE Accept(c)

----------------------------------------------------------------------------
(* The Redis sync_cache.  Stored text is JSON text or text json.loads rejects.  *)

DictV(d) == [t |-> "dict", s |-> <<>>, n |-> 0, d |-> d]

\* json.dumps(v)
JsonDumps(v) == [json |-> TRUE, v |-> v]

\* json.loads(text): not ok stands for json.JSONDecodeError
JsonLoads(text) ==
    IF text.json THEN [ok |-> TRUE, v |-> text.v] ELSE [ok |-> FALSE, v |-> NoneV]

\* stored text json.loads rejects: the empty string, and text that is not JSON
EmptyText == [json |-> FALSE, v |-> StrV(<<>>)]
GarbageText == [json |-> FALSE, v |-> StrV(<<"{">>)]

EmptyStore == [k \in {} |-> [val |-> JsonDumps(NoneV), exp |-> 0]]

Live(st, k, t) == k \in DOMAIN st /\ t < st[k].exp

\* sync_cache.get(key)
StoreGet(k) ==
    IF Live(sync_cache, k, now) THEN [some |-> TRUE, val |-> sync_cache[k].val]
    ELSE [some |-> FALSE, val |-> JsonDumps(NoneV)]

\* a SET that keeps the expiry of a key that is there (KEEPTTL)
StoreSetKeepTtl(st, k, v, ttl) ==
    [x \in (DOMAIN st) \cup {k} |->
        IF x = k
        THEN [val |-> v, exp |-> IF Live(st, k, now) THEN st[k].exp ELSE now + ttl]
        ELSE st[x]]

\* sync_cache.set(key, value, ex=ttl)
StoreSet(st, k, v, ttl) ==
    [x \in (DOMAIN st) \cup {k} |->
        IF x = k THEN [val |-> v, exp |-> now + ttl] ELSE st[x]]

\* a delete that takes every key with it
StoreDeleteAll(st, k) == EmptyStore

\* a consume that leaves the marker in place
StoreDeleteKeeps(st, k) == st

\* sync_cache.delete(key): the sync_cache afterwards
StoreDelete(st, k) == [x \in (DOMAIN st) \ {k} |-> st[x]]

\* a delete whose count is not looked at (read-then-delete)
DeletedCountBlind(st, k) == 1

\* sync_cache.delete(key): the number of keys removed
DeletedCount(st, k) == IF Live(st, k, now) THEN 1 ELSE 0

\* Redis drops a key once its expiry has passed
Purge(st, t) == [x \in {k \in DOMAIN st : t < st[k].exp} |-> st[x]]

JtiKey(jti) == <<SFU_JTI_REDIS_KEY_PREFIX>> \o jti

----------------------------------------------------------------------------
(* Principals: the authenticated users of the session layer.               *)

Alice == <<"a">>
Bob == <<"b">>
Users == {Alice, Bob}

NoSettings == [isNone |-> TRUE, d |-> <<>>]

\* user.ui_settings
ui_settings(u) ==
    IF u = Alice
    THEN [isNone |-> FALSE,
          d |-> ("netplay_username" :> StrV(<<" ">>))
                @@ ("netplayUsername" :> IntV(7))
                @@ ("settings.netplayUsername" :> StrV(<<" ", "N">>))]
    ELSE NoSettings

RECURSIVE FirstAlias(_)
FirstAlias(cands) ==
    IF cands = <<>> THEN NoneS
    ELSE IF IsStr(Head(cands)) /\ Strip(Head(cands).s) # <<>>
         THEN SomeS(Strip(Head(cands).s))
         ELSE FirstAlias(Tail(cands))

\* _get_netplay_username_from_ui_settings
_get_netplay_username_from_ui_settings(ui) ==
    IF ui.isNone \/ DOMAIN ui.d = {} THEN NoneS
    ELSE FirstAlias(<<Get(ui.d, "netplay_username"),
                      Get(ui.d, "netplayUsername"),
                      Get(ui.d, "settings.netplayUsername"),
                      Get(ui.d, "settings.netplay_username")>>)

----------------------------------------------------------------------------
(* uuid4().hex: the n-th value drawn, distinct from every other.           *)

\* a generator that returns the same value every time
Uuid4HexFixed(n) == <<"u", "1">>

UuidDigits == <<"1", "2", "3", "4", "5", "6", "7", "8">>
Uuid4Hex(n) == <<"u", UuidDigits[n]>>

\* oauth_handler.create_oauth_token(data, expires_delta): the claims with
\* exp added, signed with oct_key
create_oauth_token(data, expires_delta) ==
    [sig |-> "oct_key",
     claims |-> [k \in (DOMAIN data) \cup {"exp"} |->
                    IF k = "exp" THEN IntV(now + expires_delta) ELSE data[k]]]

----------------------------------------------------------------------------
(* Responses.                                                              *)

NoTok == [sig |-> "none", claims |-> [none |-> TRUE]]
NoResp == [op |-> "none", status |-> 0]

MintResp(status, u, kind, tok, expires, ops) ==
    [op |-> "mint", status |-> status, user |-> u, kind |-> kind, token |-> tok,
     token_type |-> "bearer", expires |-> expires, ops |-> ops]

\* authed: the caller presented the configured secret; late: the call began
\* after a consuming verification of the same jti had returned 200
VerifyResp(status, detail, tok, consume, authed, sub, alias, ops, late) ==
    [op |-> "verify", status |-> status, detail |-> detail, token |-> tok,
     consume |-> consume, authed |-> authed, sub |-> sub,
     netplay_username |-> alias, ops |-> ops, late |-> late]

Idle == [pc |-> "idle"]
NotListing == [pc |-> "idle"]
Nodes == {"sfu1", "sfu2"}

----------------------------------------------------------------------------
(* mint_sfu_token                                                          *)

MintKinds == {"read", "write", "admin"}

\* a mint that takes any token_type
AnyTokenType(token_type) == TRUE

\* "Validate token_type parameter"
ValidTokenType(token_type) == token_type \in {"read", "write"}

\* a marker that is kept as long as a read token lives
MarkerTtlOfReadToken == SFU_READ_TOKEN_TTL_SECONDS

\* the expiry mint_sfu_token gives the jti key (ex=...)
MarkerTtl == SFU_WRITE_TOKEN_TTL_SECONDS

\* the value mint_sfu_token stores under the jti key
MarkerValue(u, jti, alias, exp) == JsonDumps(IntV(0))

\* a mint that swallows the failure of its sync_cache write
MintReturnsAnyway(written) == TRUE

\* whether mint_sfu_token returns the token, given whether its sync_cache write
\* went through (an exception of sync_cache.set propagates)
MintReturns(written) == written

mint_sfu_token(u, token_type) ==
    /\ nextUuid < MaxTokens
    /\ UNCHANGED <<now, ROMM_SFU_INTERNAL_SECRET, crafted, calls, consumed, listing, nUpserts, registry>>
    /\ IF ~ValidTokenType(token_type)
       THEN /\ resp' = MintResp(400, u, token_type, NoTok, 0, 0)
            /\ UNCHANGED <<sync_cache, nextUuid, issued>>
       ELSE LET expires == IF token_type = "read" THEN SFU_READ_TOKEN_TTL_SECONDS
                           ELSE SFU_WRITE_TOKEN_TTL_SECONDS
                jti == Uuid4Hex(nextUuid + 1)
                alias == _get_netplay_username_from_ui_settings(ui_settings(u))
                base == [sub |-> StrV(u), iss |-> StrV(SFU_TOKEN_ISSUER),
                         type |-> IF token_type = "read" THEN TypeRead ELSE TypeWrite,
                         iat |-> IntV(now)]
                data == IF token_type = "write" THEN base @@ ("jti" :> StrV(jti))
                        ELSE base
                tok == create_oauth_token(data, expires)
                ok == MintResp(200, u, token_type, tok, expires,
                               IF token_type = "write" THEN 1 ELSE 0)
            IN  /\ nextUuid' = nextUuid + 1
                /\ IF token_type = "write"
                   THEN \E written \in BOOLEAN :
                          /\ sync_cache' = IF written
                                      THEN StoreSet(sync_cache, JtiKey(jti),
                                               MarkerValue(u, jti, alias, now + expires),
                                               MarkerTtl)
                                      ELSE sync_cache
                          /\ IF MintReturns(written)
                             THEN /\ issued' = issued \cup {[user |-> u, tok |-> tok]}
                                  /\ resp' = ok
                             ELSE /\ issued' = issued
                                  /\ resp' = MintResp(500, u, token_type, NoTok, 0, 1)
                   ELSE /\ sync_cache' = sync_cache
                        /\ issued' = issued \cup {[user |-> u, tok |-> tok]}
                        /\ resp' = ok

----------------------------------------------------------------------------
(* sfu_internal_verify                                                     *)

AllJtis == {Uuid4Hex(i) : i \in 1..MaxTokens}

\* a verify that sends read tokens through the marker lookup
IsReadTokenNever(token_type) == FALSE

\* the branch that returns a read token without a sync_cache lookup
IsReadToken(token_type) == token_type = TypeRead

\* a verify that deletes the marker whatever consume says
ShouldConsumeAlways(consume) == TRUE

\* the test that guards the delete of the marker
ShouldConsume(consume) == consume

\* the record the stored marker is read as
MarkerData(stored, sub, jti) ==
    LET parsed == JsonLoads(stored)
    IN  IF parsed.ok /\ parsed.v.t = "dict" THEN parsed.v.d
        ELSE [sub |-> StrV(sub), jti |-> StrV(jti)]

\* "Record must match the claims": "" when it does
Mismatch(data, sub, jti) ==
    IF Get(data, "sub") # StrV(sub) THEN "sub mismatch"
    ELSE IF Get(data, "jti") # StrV(jti) THEN "jti mismatch"
    ELSE ""

\* the alias sfu_internal_verify returns for a write token
VerifiedAlias(data) == NoneS

StartedLate(jti) == jti \in AllJtis /\ consumed[jti] >= 1

\* the handler up to and including sync_cache.get; a consuming call that
\* found the marker is left in flight, every other call returns
sfu_internal_verify(node, tok, hdr, consume) ==
    LET auth == _require_sfu_internal_secret(hdr)
        v == _decode_and_validate_sfu_jwt(tok, now)
        sub == Get(tok.claims, "sub").s
        jti == Get(tok.claims, "jti").s
        late == StartedLate(jti)
        R(status, detail, name, alias, ops) ==
            VerifyResp(status, detail, tok, consume, PresentedSecret(hdr), name, alias,
                       ops, late)
    IN  /\ calls[node] = Idle
        /\ UNCHANGED <<now, ROMM_SFU_INTERNAL_SECRET, sync_cache, nextUuid, issued, crafted, consumed, listing,
                       nUpserts, registry>>
        /\ IF auth # 0
           THEN /\ resp' = R(auth, SecretDetail(auth), <<>>, NoneS, 0)
                /\ calls' = calls
           ELSE IF ~v.ok
           THEN /\ resp' = R(401, v.detail, <<>>, NoneS, 0)
                /\ calls' = calls
           ELSE IF IsReadToken(Get(tok.claims, "type"))
           THEN /\ resp' = R(200, "", sub, NoneS, 0)
                /\ calls' = calls
           ELSE IF jti = <<>>
           THEN /\ resp' = R(401, "missing jti for write token", <<>>, NoneS, 0)
                /\ calls' = calls
           ELSE \E up \in BOOLEAN :
                  LET got == StoreGet(JtiKey(jti))
                      data == MarkerData(got.val, sub, jti)
                  IN  IF ~up
                      THEN /\ resp' = R(500, "store", <<>>, NoneS, 1)
                           /\ calls' = calls
                      ELSE IF ~got.some
                      THEN /\ resp' = R(401, "token not listed", <<>>, NoneS, 1)
                           /\ calls' = calls
                      ELSE IF ShouldConsume(consume)
                      THEN /\ resp' = NoResp
                           /\ calls' = [calls EXCEPT ![node] =
                                  [pc |-> "got", tok |-> tok, data |-> data,
                                   consume |-> consume, late |-> late,
                                   authed |-> PresentedSecret(hdr)]]
                      ELSE /\ calls' = calls
                           /\ resp' = IF Mismatch(data, sub, jti) # ""
                                      THEN R(401, Mismatch(data, sub, jti), <<>>, NoneS, 1)
                                      ELSE R(200, "", sub, VerifiedAlias(data), 1)

\* the rest of a consuming call: sync_cache.delete, the record checks, return
sfu_internal_verify_delete(node) ==
    LET call == calls[node]
        tok == call.tok
        sub == Get(tok.claims, "sub").s
        jti == Get(tok.claims, "jti").s
        R(status, detail, name, alias) ==
            VerifyResp(status, detail, tok, call.consume, call.authed, name, alias, 2,
                       call.late)
    IN  /\ call # Idle
        /\ calls' = [calls EXCEPT ![node] = Idle]
        /\ UNCHANGED <<now, ROMM_SFU_INTERNAL_SECRET, nextUuid, issued, crafted, listing, nUpserts, registry>>
        /\ \E up \in BOOLEAN :
             IF ~up
             THEN /\ resp' = R(500, "store", <<>>, NoneS)
                  /\ UNCHANGED <<sync_cache, consumed>>
             ELSE /\ sync_cache' = StoreDelete(sync_cache, JtiKey(jti))
                  /\ IF DeletedCount(sync_cache, JtiKey(jti)) = 0
                     THEN /\ resp' = R(401, "token already used or not found", <<>>, NoneS)
                          /\ consumed' = consumed
                     ELSE IF Mismatch(call.data, sub, jti) # ""
                     THEN /\ resp' = R(401, Mismatch(call.data, sub, jti), <<>>, NoneS)
                          /\ consumed' = consumed
                     ELSE /\ resp' = R(200, "", sub, VerifiedAlias(call.data))
                          /\ consumed' = IF jti \in AllJtis
                                         THEN [consumed EXCEPT ![jti] = @ + 1]
                                         ELSE consumed

----------------------------------------------------------------------------
(* The room registry.                                                      *)

_room_key(room_name) == <<SFU_ROOM_REDIS_KEY_PREFIX>> \o room_name

OptV(o) == IF o.some THEN StrV(o.s) ELSE NoneV

\* the room names callers send
RoomNameInputs == {<<"r">>, <<" ", "r">>, <<"q">>, <<" ">>}

\* SFURoomRecord request bodies
RoomBodies ==
    {[room_name |-> n, current |-> 1, max |-> 4, hasPassword |-> TRUE,
      nodeId |-> SomeS(<<"node-a">>), url |-> SomeS(<<"https://a">>)] :
        n \in RoomNameInputs}
    \cup
    {[room_name |-> n, current |-> 2, max |-> 8, hasPassword |-> FALSE,
      nodeId |-> NoneS, url |-> NoneS] : n \in RoomNameInputs}

\* the names rooms are stored under
RoomNames == {Strip(n) : n \in RoomNameInputs} \ {<<>>}

\* the history of the registry: per room name the last write (the request
\* body of an upsert and its time, the write of another writer of the store,
\* the delete of an upserted record, or none)
NoRoom == [by |-> "none", body |-> CHOOSE b \in RoomBodies : TRUE, at |-> 0]
NoRegistry == [n \in RoomNames |-> NoRoom]
Upserted(reg, room_name, body) ==
    [reg EXCEPT ![room_name] = [by |-> "upsert", body |-> body, at |-> now]]
Deleted(reg, room_name) ==
    [reg EXCEPT ![room_name] =
        [NoRoom EXCEPT !.by = IF reg[room_name].by \in {"upsert", "deleted"}
                              THEN "deleted" ELSE "none"]]

\* a payload that leaves the occupancy and the capacity at their defaults
PayloadWithoutOccupancy(body, room_name) ==
    [room_name |-> StrV(room_name), current |-> IntV(0), max |-> IntV(0),
     hasPassword |-> BoolV(body.hasPassword), nodeId |-> OptV(body.nodeId),
     url |-> OptV(body.url), updatedAt |-> IntV(now * 1000)]

\* a payload that fills the node id and the URL the body leaves out from the
\* record that is stored (a merge of fields)
PayloadMerged(body, room_name) ==
    LET k == _room_key(room_name)
        prior == IF Live(sync_cache, k, now) /\ JsonLoads(sync_cache[k].val).ok
                 THEN JsonLoads(sync_cache[k].val).v.d
                 ELSE [nodeId |-> NoneV, url |-> NoneV]
    IN  [room_name |-> StrV(room_name), current |-> IntV(body.current),
         max |-> IntV(body.max), hasPassword |-> BoolV(body.hasPassword),
         nodeId |-> IF body.nodeId.some THEN OptV(body.nodeId) ELSE prior.nodeId,
         url |-> IF body.url.some THEN OptV(body.url) ELSE prior.url,
         updatedAt |-> IntV(now * 1000)]

\* a payload that keeps the room name as it was sent
PayloadAsSent(body, room_name) ==
    [room_name |-> StrV(body.room_name), current |-> IntV(body.current),
     max |-> IntV(body.max), hasPassword |-> BoolV(body.hasPassword),
     nodeId |-> OptV(body.nodeId), url |-> OptV(body.url),
     updatedAt |-> IntV(now * 1000)]

\* body.model_dump() with room_name and updatedAt set by the handler
payload(body, room_name) ==
    [room_name |-> StrV(room_name), current |-> IntV(body.current),
     max |-> IntV(body.max), hasPassword |-> BoolV(body.hasPassword),
     nodeId |-> OptV(body.nodeId), url |-> OptV(body.url),
     updatedAt |-> IntV(now * 1000)]

RoomResp(op, status, authed, ops, room, body) ==
    [op |-> op, status |-> status, authed |-> authed, ops |-> ops, room |-> room,
     body |-> body]

NoBody == [none |-> TRUE]

\* sfu_internal_rooms_upsert
sfu_internal_rooms_upsert(hdr, body) ==
    LET auth == _require_sfu_internal_secret(hdr)
        room_name == Strip(body.room_name)
        R(status, ops) ==
            RoomResp("upsert", status, PresentedSecret(hdr), ops, body.room_name,
                     [ok |-> status = 200])
    IN  /\ nUpserts < MaxUpserts
        /\ UNCHANGED <<now, ROMM_SFU_INTERNAL_SECRET, nextUuid, issued, crafted, calls, consumed, listing>>
        /\ IF auth # 0
           THEN resp' = R(auth, 0) /\ UNCHANGED <<sync_cache, nUpserts, registry>>
           ELSE IF room_name = <<>>
           THEN resp' = R(400, 0) /\ UNCHANGED <<sync_cache, nUpserts, registry>>
           ELSE \E written \in BOOLEAN :
                  IF written
                  THEN /\ sync_cache' = StoreSet(sync_cache, _room_key(room_name),
                                      JsonDumps(DictV(payload(body, room_name))),
                                      SFU_ROOM_TTL_SECONDS)
                       /\ nUpserts' = nUpserts + 1
                       /\ registry' = Upserted(registry, room_name, body)
                       /\ resp' = R(200, 1)
                  ELSE resp' = R(500, 1) /\ UNCHANGED <<sync_cache, nUpserts, registry>>

\* sfu_internal_rooms_delete
sfu_internal_rooms_delete(hdr, name) ==
    LET auth == _require_sfu_internal_secret(hdr)
        room_name == Strip(name)
        R(status, ops) ==
            RoomResp("delete", status, PresentedSecret(hdr), ops, name,
                     [ok |-> status = 200])
    IN  /\ UNCHANGED <<now, ROMM_SFU_INTERNAL_SECRET, nextUuid, issued, crafted, calls, consumed, listing,
                       nUpserts>>
        /\ IF auth # 0
           THEN resp' = R(auth, 0) /\ UNCHANGED <<sync_cache, registry>>
           ELSE IF room_name = <<>>
           THEN resp' = R(400, 0) /\ UNCHANGED <<sync_cache, registry>>
           ELSE \E up \in BOOLEAN :
                  IF up
                  THEN /\ sync_cache' = StoreDelete(sync_cache, _room_key(room_name))
                       /\ registry' = Deleted(registry, room_name)
                       /\ resp' = R(200, 1)
                  ELSE resp' = R(500, 1) /\ UNCHANGED <<sync_cache, registry>>

\* SFURoomRecord(**parsed): the fields of a stored record, defaults filled in
RoomRecord(d) ==
    [room_name |-> Get(d, "room_name"),
     current |-> IF "current" \in DOMAIN d THEN d["current"] ELSE IntV(0),
     max |-> IF "max" \in DOMAIN d THEN d["max"] ELSE IntV(0),
     hasPassword |-> IF "hasPassword" \in DOMAIN d THEN d["hasPassword"] ELSE BoolV(FALSE),
     nodeId |-> Get(d, "nodeId"),
     url |-> Get(d, "url"),
     updatedAt |-> Get(d, "updatedAt")]

\* sfu_internal_rooms_resolve
sfu_internal_rooms_resolve(hdr, room) ==
    LET auth == _require_sfu_internal_secret(hdr)
        room_name == Strip(room)
        got == StoreGet(_room_key(room_name))
        parsed == JsonLoads(got.val)
        R(status, ops, body) ==
            RoomResp("resolve", status, PresentedSecret(hdr), ops, room, body)
    IN  /\ UNCHANGED <<now, ROMM_SFU_INTERNAL_SECRET, sync_cache, nextUuid, issued, crafted, calls, consumed,
                       listing, nUpserts, registry>>
        /\ IF auth # 0 THEN resp' = R(auth, 0, NoBody)
           ELSE IF room_name = <<>> THEN resp' = R(400, 0, NoBody)
           ELSE \E up \in BOOLEAN :
                  IF ~up THEN resp' = R(500, 1, NoBody)
                  ELSE IF ~got.some \/ got.val = EmptyText THEN resp' = R(404, 1, NoBody)
                  ELSE IF ~parsed.ok THEN resp' = R(500, 1, NoBody)
                  ELSE IF parsed.v.t # "dict" \/ ~IsStr(Get(parsed.v.d, "room_name"))
                       THEN resp' = R(500, 1, NoBody)
                  ELSE resp' = R(200, 1, RoomRecord(parsed.v.d))

\* the keys SCAN can come across under the room prefix
RoomSlots == {_room_key(Strip(n)) : n \in {x \in RoomNameInputs : Strip(x) # <<>>}}

EmptyListing == [k \in {} |-> NoBody]

\* the entry sfu_internal_rooms_list builds from a decoded record
RoomSummary(k, d) ==
    LET embedded == Get(d, "room_name")
        room_name == IF Truthy(embedded) THEN embedded ELSE StrV(Tail(k))
    IN  [room_name |-> room_name,
         current |-> IF "current" \in DOMAIN d THEN d["current"] ELSE IntV(0),
         max |-> IF "max" \in DOMAIN d THEN d["max"] ELSE IntV(0),
         hasPassword |-> BoolV(Truthy(Get(d, "hasPassword"))),
         nodeId |-> Get(d, "nodeId"),
         url |-> Get(d, "url")]

\* the keys of a batch whose value mget returns and json.loads decodes
Decodable(keys) == {k \in keys : Live(sync_cache, k, now) /\ JsonLoads(sync_cache[k].val).ok}

\* out after the batch: one entry per decoded record, under its room name
Merge(out, keys) ==
    LET entries == {RoomSummary(k, JsonLoads(sync_cache[k].val).v.d) : k \in Decodable(keys)}
        names == {e.room_name.s : e \in entries}
    IN  [n \in (DOMAIN out) \cup names |->
            IF n \in names THEN CHOOSE e \in entries : e.room_name.s = n ELSE out[n]]

\* detail: what made the call fail ("" when it returned)
ListResp(status, detail, authed, ops, out) ==
    [op |-> "list", status |-> status, detail |-> detail, authed |-> authed,
     ops |-> ops, out |-> out]

\* sfu_internal_rooms_list up to the loop
sfu_internal_rooms_list(hdr) ==
    LET auth == _require_sfu_internal_secret(hdr)
    IN  /\ listing = NotListing
        /\ UNCHANGED <<now, ROMM_SFU_INTERNAL_SECRET, sync_cache, nextUuid, issued, crafted, calls, consumed,
                       nUpserts, registry>>
        /\ IF auth # 0
           THEN /\ resp' = ListResp(auth, SecretDetail(auth), PresentedSecret(hdr), 0,
                                    EmptyListing)
                /\ listing' = listing
           ELSE /\ resp' = NoResp
                /\ listing' = [pc |-> "scan", left |-> RoomSlots, keys |-> {},
                               out |-> EmptyListing, ops |-> 0,
                               authed |-> PresentedSecret(hdr)]

\* a loop that never takes the cursor for 0
CursorNeverZero(left) == FALSE

\* int(cursor) == 0: SCAN has been over every slot
CursorIsZero(left) == left = {}

\* sync_cache.scan: SCAN goes over some of the slots it has not been over and
\* returns the live keys in them; the cursor is 0 once no slot is left
sfu_internal_rooms_list_scan ==
    /\ listing.pc = "scan"
    /\ UNCHANGED <<now, ROMM_SFU_INTERNAL_SECRET, sync_cache, nextUuid, issued, crafted, calls, consumed,
                   nUpserts, registry>>
    /\ \E up \in BOOLEAN, visited \in (SUBSET listing.left) \ {{}} :
         LET keys == {k \in visited : Live(sync_cache, k, now)}
             left == listing.left \ visited
         IN  IF ~up
             THEN /\ resp' = ListResp(500, "store", listing.authed, listing.ops + 1,
                                      EmptyListing)
                  /\ listing' = NotListing
             ELSE IF keys = {} /\ CursorIsZero(left)
             THEN /\ resp' = ListResp(200, "", listing.authed, listing.ops + 1, listing.out)
                  /\ listing' = NotListing
             ELSE /\ resp' = NoResp
                  /\ listing' = [listing EXCEPT !.pc = IF keys = {} THEN "scan" ELSE "mget",
                                               !.left = left, !.keys = keys,
                                               !.ops = @ + 1]

\* sync_cache.mget and the decoding of the batch, then the test of the cursor
sfu_internal_rooms_list_mget ==
    /\ listing.pc = "mget"
    /\ UNCHANGED <<now, ROMM_SFU_INTERNAL_SECRET, sync_cache, nextUuid, issued, crafted, calls, consumed,
                   nUpserts, registry>>
    /\ \E up \in BOOLEAN :
         LET out == Merge(listing.out, listing.keys)
             notDict == \E k \in Decodable(listing.keys) :
                            JsonLoads(sync_cache[k].val).v.t # "dict"
         IN  IF ~up \/ notDict
             THEN /\ resp' = ListResp(500, IF ~up THEN "store" ELSE "AttributeError",
                                      listing.authed, listing.ops + 1, EmptyListing)
                  /\ listing' = NotListing
             ELSE IF CursorIsZero(listing.left)
             THEN /\ resp' = ListResp(200, "", listing.authed, listing.ops + 1, out)
                  /\ listing' = NotListing
             ELSE /\ resp' = NoResp
                  /\ listing' = [listing EXCEPT !.pc = "scan", !.keys = {}, !.out = out,
                                               !.ops = @ + 1]

----------------------------------------------------------------------------
(* Time.  The clock moves to an instant at which something changes: the    *)
(* last second before, or the second of, a key's expiry or a token's       *)
(* exp + skew.                                                              *)

Deadlines ==
    {sync_cache[k].exp : k \in DOMAIN sync_cache}
        \cup {i.tok.claims.exp.n + SFU_TOKEN_CLOCK_SKEW_SECONDS : i \in issued}

TickTargets == {t \in UNION {{d - 1, d} : d \in Deadlines} : now < t /\ t <= MaxTime}

Tick ==
    /\ \E t \in TickTargets :
         /\ now' = t
         /\ sync_cache' = Purge(sync_cache, t)
    /\ resp' = NoResp
    /\ UNCHANGED <<ROMM_SFU_INTERNAL_SECRET, nextUuid, issued, crafted, calls, consumed, listing, nUpserts,
                   registry>>

----------------------------------------------------------------------------

\* what a relay node may present: a minted token, or one re-signed with
\* another key
Tampered(tok) == [tok EXCEPT !.sig = "other"]
Presented == {i.tok : i \in issued} \cup {Tampered(i.tok) : i \in issued} \cup crafted

Init ==
    /\ now = 0
    /\ ROMM_SFU_INTERNAL_SECRET \in ConfiguredSecrets
    /\ sync_cache = EmptyStore
    /\ nextUuid = 0
    /\ issued = {}
    /\ crafted = {}
    /\ calls = [n \in Nodes |-> Idle]
    /\ consumed = [j \in AllJtis |-> 0]
    /\ listing = NotListing
    /\ nUpserts = 0
    /\ registry = NoRegistry
    /\ resp = NoResp

Next ==
    \/ \E u \in Users, k \in MintKinds : mint_sfu_token(u, k)
    \/ \E n \in Nodes, tok \in Presented, h \in Headers, c \in BOOLEAN :
          sfu_internal_verify(n, tok, h, c)
    \/ \E n \in Nodes : sfu_internal_verify_delete(n)
    \/ Tick

Spec == Init /\ [][Next]_vars

----------------------------------------------------------------------------
(* Every endpoint of the router at one instant, with one uuid left to      *)
(* draw and one relay node verifying.                                      *)

RoomsNext ==
    \/ \E h \in Headers, b \in RoomBodies : sfu_internal_rooms_upsert(h, b)
    \/ \E h \in Headers, n \in RoomNameInputs : sfu_internal_rooms_delete(h, n)
    \/ \E h \in Headers, n \in RoomNameInputs : sfu_internal_rooms_resolve(h, n)
    \/ \E h \in Headers : sfu_internal_rooms_list(h)
    \/ sfu_internal_rooms_list_scan
    \/ sfu_internal_rooms_list_mget

InitInternal ==
    /\ now = 0
    /\ ROMM_SFU_INTERNAL_SECRET \in ConfiguredSecrets
    /\ sync_cache = EmptyStore
    /\ nextUuid = MaxTokens - 1
    /\ issued = {}
    /\ crafted = {}
    /\ calls = [n \in Nodes |-> Idle]
    /\ consumed = [j \in AllJtis |-> 0]
    /\ listing = NotListing
    /\ nUpserts = 0
    /\ registry = NoRegistry
    /\ resp = NoResp

NextInternal ==
    \/ \E k \in {"read", "write"} : mint_sfu_token(Alice, k)
    \/ \E tok \in Presented, h \in Headers, c \in BOOLEAN : sfu_internal_verify("sfu1", tok, h, c)
    \/ \E n \in Nodes : sfu_internal_verify_delete(n)
    \/ RoomsNext

SpecInternal == InitInternal /\ [][NextInternal]_vars

----------------------------------------------------------------------------
(* The room registry over time, called by one relay node at a time (a      *)
(* call begins once the one before has returned), with or without the      *)
(* secret, next to another writer of the store that leaves under a room    *)
(* key a value that is not a room record.                                  *)

\* what the other writer leaves: "", text that is not JSON, JSON that is not
\* an object, and an object without a room name
ForeignValues ==
    {EmptyText, GarbageText, JsonDumps(IntV(0)), JsonDumps(DictV([k \in {} |-> NoneV]))}

\* the expiry of a key that has none
Never == MaxTime + 2

\* the headers of a relay node that holds the secret and of one that sends none
RelayHeaders == {SomeS(<<"k">>), NoneS}

\* a SET of a foreign value, without expiry, on a room key
ForeignWrite(room_name, text) ==
    /\ \A n \in RoomNames : registry[n].by # "foreign"
    /\ sync_cache' = [x \in (DOMAIN sync_cache) \cup {_room_key(room_name)} |->
                     IF x = _room_key(room_name)
                     THEN [val |-> text, exp |-> Never]
                     ELSE sync_cache[x]]
    /\ registry' = [registry EXCEPT ![room_name] = [NoRoom EXCEPT !.by = "foreign"]]
    /\ resp' = NoResp
    /\ UNCHANGED <<now, ROMM_SFU_INTERNAL_SECRET, nextUuid, issued, crafted, calls, consumed, listing,
                   nUpserts>>

InitRooms ==
    /\ now = 0
    /\ ROMM_SFU_INTERNAL_SECRET = <<" ", "k">>
    /\ sync_cache = EmptyStore
    /\ nextUuid = 0
    /\ issued = {}
    /\ crafted = {}
    /\ calls = [n \in Nodes |-> Idle]
    /\ consumed = [j \in AllJtis |-> 0]
    /\ listing = NotListing
    /\ nUpserts = 0
    /\ registry = NoRegistry
    /\ resp = NoResp

NextRooms ==
    \/ /\ listing = NotListing
       /\ \/ \E h \in RelayHeaders, b \in RoomBodies : sfu_internal_rooms_upsert(h, b)
          \/ \E h \in RelayHeaders, n \in RoomNameInputs : sfu_internal_rooms_delete(h, n)
          \/ \E h \in RelayHeaders, n \in RoomNameInputs : sfu_internal_rooms_resolve(h, n)
          \/ \E v \in ForeignValues : ForeignWrite(<<"q">>, v)
          \/ Tick
    \/ \E h \in RelayHeaders : sfu_internal_rooms_list(h)
    \/ sfu_internal_rooms_list_scan
    \/ sfu_internal_rooms_list_mget

SpecRooms == InitRooms /\ [][NextRooms]_vars

----------------------------------------------------------------------------
(* A list call next to relay nodes that upsert and delete rooms and to the *)
(* clock that expires them.  The handler, once called, goes on running:    *)
(* each iteration of its loop is taken in the end.                         *)

NextListing ==
    \/ \E b \in RoomBodies : sfu_internal_rooms_upsert(SomeS(<<"k">>), b)
    \/ \E n \in RoomNames : sfu_internal_rooms_delete(SomeS(<<"k">>), n)
    \/ \E h \in RelayHeaders : sfu_internal_rooms_list(h)
    \/ sfu_internal_rooms_list_scan
    \/ sfu_internal_rooms_list_mget
    \/ Tick

SpecListing ==
    /\ InitRooms
    /\ [][NextListing]_vars
    /\ WF_vars(sfu_internal_rooms_list_scan)
    /\ WF_vars(sfu_internal_rooms_list_mget)

----------------------------------------------------------------------------
(* Verification as a function of the token and the time: one token with    *)
(* claims of any shape, signed with either key, presented at a chosen time *)
(* to a sync_cache that holds the marker of a write token minted at time 0.     *)

Absent == [t |-> "absent", s |-> <<>>, n |-> 0]

\* the claims among sub, iss, type, exp, nbf, jti that are not Absent
Craft(sig, sub, iss, type, exp, nbf, jti) ==
    LET full == [sub |-> sub, iss |-> iss, type |-> type, exp |-> exp,
                 nbf |-> nbf, jti |-> jti]
    IN  [sig |-> sig,
         claims |-> [k \in {x \in DOMAIN full : full[x] # Absent} |-> full[k]]]

CraftedTokens ==
    {Craft(sig, sub, iss, type, exp, nbf, jti) :
        sig \in {"oct_key", "other"},
        sub \in {StrV(Alice), StrV(<<>>), IntV(7)},
        iss \in {StrV(SFU_TOKEN_ISSUER), StrV(<<"romm:oauth">>)},
        type \in {TypeRead, TypeWrite, TypeLegacy, StrV(<<"access">>)},
        exp \in {Absent, IntV(0), IntV(30), StrV(<<"3", "0">>), StrV(<<"x">>)},
        nbf \in {Absent, IntV(10)},
        jti \in {Absent, StrV(Uuid4Hex(1)), StrV(<<>>)}}

\* the instants around nbf - skew (5) and exp + skew (35)
ProbeTimes == {4, 5, 34, 35}

\* the write token mint_sfu_token(Alice, "write") returns at time 0 with uuid 1
MintedAtZero ==
    [sig |-> "oct_key",
     claims |-> [sub |-> StrV(Alice), iss |-> StrV(SFU_TOKEN_ISSUER), type |-> TypeWrite,
                 iat |-> IntV(0), jti |-> StrV(Uuid4Hex(1)),
                 exp |-> IntV(SFU_WRITE_TOKEN_TTL_SECONDS)]]

InitClaims ==
    /\ now \in ProbeTimes
    /\ ROMM_SFU_INTERNAL_SECRET = <<" ", "k">>
    /\ sync_cache = Purge([k \in {JtiKey(Uuid4Hex(1))} |->
                        [val |-> JsonDumps(IntV(0)), exp |-> SFU_WRITE_TOKEN_TTL_SECONDS]],
                     now)
    /\ nextUuid = 1
    /\ issued = {[user |-> Alice, tok |-> MintedAtZero]}
    /\ crafted \in {{t} : t \in CraftedTokens}
    /\ calls = [n \in Nodes |-> Idle]
    /\ consumed = [j \in AllJtis |-> 0]
    /\ listing = NotListing
    /\ nUpserts = 0
    /\ registry = NoRegistry
    /\ resp = NoResp

NextClaims ==
    \/ \E n \in Nodes, tok \in crafted, h \in Headers, c \in BOOLEAN :
          sfu_internal_verify(n, tok, h, c)
    \/ \E n \in Nodes : sfu_internal_verify_delete(n)

SpecClaims == InitClaims /\ [][NextClaims]_vars

----------------------------------------------------------------------------
(* Verification of the write token minted at time 0 against a store whose  *)
(* marker for it is in one of the formats the handler reads: the value     *)
(* mint writes, or a record of the old format, matching the token or not.  *)

\* the old format: a record of the subject and the jti
LegacyRecord(sub, jti) == JsonDumps(DictV([sub |-> StrV(sub), jti |-> StrV(jti)]))

StoredMarkers ==
    {JsonDumps(IntV(0)),
     LegacyRecord(Alice, Uuid4Hex(1)),
     LegacyRecord(Bob, Uuid4Hex(1)),
     LegacyRecord(Alice, Uuid4Hex(2))}

InitLegacy ==
    /\ now = 0
    /\ ROMM_SFU_INTERNAL_SECRET = <<" ", "k">>
    /\ \E v \in StoredMarkers :
          sync_cache = [k \in {JtiKey(Uuid4Hex(1))} |->
                           [val |-> v, exp |-> SFU_WRITE_TOKEN_TTL_SECONDS]]
    /\ nextUuid = 1
    /\ issued = {[user |-> Alice, tok |-> MintedAtZero]}
    /\ crafted = {}
    /\ calls = [n \in Nodes |-> Idle]
    /\ consumed = [j \in AllJtis |-> 0]
    /\ listing = NotListing
    /\ nUpserts = 0
    /\ registry = NoRegistry
    /\ resp = NoResp

NextLegacy ==
    \/ \E n \in Nodes, h \in Headers, c \in BOOLEAN :
          sfu_internal_verify(n, MintedAtZero, h, c)
    \/ \E n \in Nodes : sfu_internal_verify_delete(n)
    \/ Tick

SpecLegacy == InitLegacy /\ [][NextLegacy]_vars

----------------------------------------------------------------------------
(* Properties of token issuance and verification.                          *)

IsIssued(tok) == \E i \in issued : i.tok = tok
OwnerOf(tok) == (CHOOSE i \in issued : i.tok = tok).user
IsWrite(tok) == Get(tok.claims, "type") = TypeWrite
IsRead(tok) == Get(tok.claims, "type") = TypeRead
JtiOf(tok) == Get(tok.claims, "jti").s
ExpOf(tok) == Get(tok.claims, "exp").n
IatOf(tok) == Get(tok.claims, "iat").n

\* the marker of a minted write token has outlived its TTL
MarkerExpired(tok) == now >= IatOf(tok) + SFU_WRITE_TOKEN_TTL_SECONDS

\* a verify call by a relay node that presented the configured secret, on a
\* minted write token, has just returned
VerifiedWrite ==
    /\ resp.op = "verify"
    /\ resp.authed
    /\ IsIssued(resp.token)
    /\ IsWrite(resp.token)

\* C1: per tokenId at most one verify(consume=true) returns success, in any
\* interleaving of concurrent calls; every other consuming call that gets an
\* answer from the sync_cache is refused with 401.
C1_AtMostOneConsume ==
    /\ \A j \in AllJtis : consumed[j] <= 1
    /\ (VerifiedWrite /\ resp.consume /\ resp.status # 200 /\ resp.status # 500)
          => resp.status = 401

\* C1 witness: a consuming call lost the race for a marker that had not
\* expired: it found the marker and its delete removed nothing.
C1_Witness ==
    /\ VerifiedWrite
    /\ resp.consume
    /\ resp.status = 401
    /\ resp.detail = "token already used or not found"
    /\ ~MarkerExpired(resp.token)
    /\ consumed[JtiOf(resp.token)] = 1

\* C2: of the consuming verifications of a minted write token the first one
\* succeeds with the subject (a consuming call is refused only if another one
\* has succeeded or the marker has expired), and no verification that starts
\* after a successful consumption succeeds.
C2_FirstConsumeThenRefused ==
    VerifiedWrite =>
        /\ resp.status = 200 => (~resp.late /\ resp.sub = OwnerOf(resp.token))
        /\ resp.late => resp.status \in {401, 500}
        /\ (resp.consume /\ resp.status \notin {200, 500})
              => (consumed[JtiOf(resp.token)] >= 1 \/ MarkerExpired(resp.token))

\* C2 witness: a verify that started after the successful consumption of its
\* token, before the marker's TTL had run out, was refused.
C2_Witness ==
    /\ VerifiedWrite
    /\ resp.late
    /\ resp.status = 401
    /\ consumed[JtiOf(resp.token)] = 1
    /\ ~MarkerExpired(resp.token)

\* C3: a verify(consume=false) changes neither the sync_cache nor the consumption
\* record, and while the marker is live it succeeds with the subject each
\* time the sync_cache answers.
C3_NonConsumingIsReadOnly ==
    [][(resp'.op = "verify" /\ ~resp'.consume)
          => /\ sync_cache' = sync_cache
             /\ consumed' = consumed
             /\ (/\ resp'.authed
                 /\ IsIssued(resp'.token)
                 /\ IsWrite(resp'.token)
                 /\ Live(sync_cache, JtiKey(JtiOf(resp'.token)), now)
                 /\ resp'.status # 500)
                   => (resp'.status = 200 /\ resp'.sub = OwnerOf(resp'.token))]_vars

\* C3 witness: a non-consuming verify of a write token succeeded and the
\* marker is still in the sync_cache.
C3_Witness ==
    /\ VerifiedWrite
    /\ ~resp.consume
    /\ resp.status = 200
    /\ Live(sync_cache, JtiKey(JtiOf(resp.token)), now)

\* C4: a verify(consume=false) with the configured secret on a minted token
\* returns the subject of the principal it was minted for; it is refused only
\* if the token has been consumed or its marker has expired (write), or its
\* exp plus the skew has passed (read), or the sync_cache gave no answer (write).
C4_MintThenVerify ==
    (resp.op = "verify" /\ resp.authed /\ ~resp.consume /\ IsIssued(resp.token)) =>
        /\ resp.status = 200 => resp.sub = OwnerOf(resp.token)
        /\ resp.status # 200 =>
              IF IsWrite(resp.token)
              THEN \/ resp.status = 500
                   \/ consumed[JtiOf(resp.token)] >= 1
                   \/ MarkerExpired(resp.token)
              ELSE Expired(ExpOf(resp.token), now)

\* C4 witness: the non-consuming verify of a minted read token returned its
\* subject (the write case is C3's witness).
C4_Witness ==
    /\ resp.op = "verify"
    /\ resp.authed
    /\ ~resp.consume
    /\ IsIssued(resp.token)
    /\ IsRead(resp.token)
    /\ resp.status = 200
    /\ resp.sub = OwnerOf(resp.token)

\* C5: minting a read token and verifying a token of type read perform no
\* sync_cache operation and leave the sync_cache as it is; the verify succeeds exactly
\* when the signature is good and exp plus the skew has not passed, whatever
\* the sync_cache holds and whether or not it answers.
C5_ReadTokensAreStateless ==
    [][/\ (resp'.op = "mint" /\ resp'.kind = "read")
            => (sync_cache' = sync_cache /\ resp'.ops = 0 /\ resp'.status = 200)
       /\ (resp'.op = "verify" /\ IsRead(resp'.token))
            => /\ sync_cache' = sync_cache
               /\ resp'.ops = 0
               /\ resp'.authed =>
                    (resp'.status = 200 <=>
                        (IsIssued(resp'.token)
                            /\ ~Expired(ExpOf(resp'.token), now)))]_vars

\* C5 witness: a read token was verified while the sync_cache held a marker.
C5_Witness ==
    /\ resp.op = "verify"
    /\ IsRead(resp.token)
    /\ resp.status = 200
    /\ DOMAIN sync_cache # {}

\* C7: a mint(write) returns a token exactly when its marker is in the sync_cache;
\* when the marker write fails the mint fails with no token.
C7_NoTokenWithoutMarker ==
    (resp.op = "mint" /\ resp.kind = "write") =>
        /\ resp.status = 200 <=> Live(sync_cache, JtiKey(Uuid4Hex(nextUuid)), now)
        /\ resp.status = 200 => (IsIssued(resp.token) /\ JtiOf(resp.token) = Uuid4Hex(nextUuid))
        /\ resp.status # 200 => (resp.token = NoTok /\ resp.status = 500)

\* C7 witness: a mint(write) whose marker write failed returned an error.
C7_Witness ==
    /\ resp.op = "mint"
    /\ resp.kind = "write"
    /\ resp.status = 500
    /\ resp.token = NoTok

\* C8: after a successful mint(write) the sync_cache holds under the jti a record
\* of the subject, the issuer, the jti, the issued / expiry timestamps and the
\* resolved alias, with the write TTL.
C8_MarkerRecordsClaims ==
    (resp.op = "mint" /\ resp.kind = "write" /\ resp.status = 200) =>
        LET key == JtiKey(JtiOf(resp.token))
            alias == _get_netplay_username_from_ui_settings(ui_settings(resp.user))
            rec == JsonLoads(sync_cache[key].val).v
        IN  /\ key \in DOMAIN sync_cache
            /\ sync_cache[key].exp = now + SFU_WRITE_TOKEN_TTL_SECONDS
            /\ rec.t = "dict"
            /\ Get(rec.d, "sub") = StrV(resp.user)
            /\ Get(rec.d, "iss") = StrV(SFU_TOKEN_ISSUER)
            /\ Get(rec.d, "jti") = StrV(JtiOf(resp.token))
            /\ Get(rec.d, "iat") = IntV(IatOf(resp.token))
            /\ Get(rec.d, "exp") = IntV(ExpOf(resp.token))
            /\ alias.some => Get(rec.d, "netplay_username") = StrV(alias.s)

\* C9: a successful verify of a write token returns the alias resolved for
\* the principal at mint time when there is one; a read token returns none.
C9_VerifyReturnsAlias ==
    (resp.op = "verify" /\ resp.status = 200 /\ IsIssued(resp.token)) =>
        IF IsRead(resp.token) THEN resp.netplay_username = NoneS
        ELSE resp.netplay_username = _get_netplay_username_from_ui_settings(ui_settings(OwnerOf(resp.token)))


----------------------------------------------------------------------------
(* Properties of the claims validation.                                    *)

HasJti(tok) == Truthy(Get(tok.claims, "jti"))
GoodJti(tok) == Truthy(Get(tok.claims, "jti")) /\ IsStr(Get(tok.claims, "jti"))
IsWriteCapable(tok) == Get(tok.claims, "type") \in {TypeWrite, TypeLegacy}
WithoutJti(tok) ==
    [tok EXCEPT !.claims = [k \in (DOMAIN tok.claims) \ {"jti"} |-> tok.claims[k]]]

\* C10 as stated: verify accepts a token only if its jti is present and
\* non-empty exactly when the token is a write token.
C10_JtiIffWrite ==
    (resp.op = "verify" /\ resp.status = 200)
        => (HasJti(resp.token) <=> IsWriteCapable(resp.token))

\* C10 amended: a write token (sfu:write, or the legacy type sfu) whose jti is
\* missing, empty or not a string is refused with 401; for a read token the
\* jti is not looked at: it is accepted exactly when it would be without it.
C10_JtiRequiredForWriteOnly ==
    (resp.op = "verify" /\ resp.authed) =>
        /\ (IsWriteCapable(resp.token) /\ ~GoodJti(resp.token)) => resp.status = 401
        /\ (IsWriteCapable(resp.token) /\ resp.status = 200) => GoodJti(resp.token)
        /\ IsRead(resp.token) =>
              (resp.status = 200 <=> _decode_and_validate_sfu_jwt(WithoutJti(resp.token), now).ok)

\* C10 witness: a write token without a jti, good in every other claim, was
\* refused for the missing jti.
C10_Witness ==
    /\ resp.op = "verify"
    /\ resp.authed
    /\ IsWrite(resp.token)
    /\ "jti" \notin DOMAIN resp.token.claims
    /\ resp.status = 401
    /\ resp.detail = "missing jti"


----------------------------------------------------------------------------
(* Properties of the internal endpoints.                                   *)

InternalOps == {"verify", "upsert", "delete", "resolve", "list"}

\* C6: an internal operation called without the configured secret is refused
\* by the secret check alone (401, or 503 when no secret is configured): the
\* refusal does not depend on the token or body, no sync_cache operation is made,
\* and the sync_cache, the markers and the calls in flight are as before.
C6_SecretCheckedFirst ==
    [][(resp'.op \in InternalOps /\ ~resp'.authed)
          => /\ resp'.status = IF Strip(ROMM_SFU_INTERNAL_SECRET) = <<>> THEN 503 ELSE 401
             /\ resp'.op = "verify" => resp'.detail = SecretDetail(resp'.status)
             /\ resp'.ops = 0
             /\ sync_cache' = sync_cache
             /\ consumed' = consumed
             /\ calls' = calls
             /\ listing' = listing]_vars

\* C6 witness: a verify without the configured secret was refused although
\* the token it presented is a minted write token whose marker is live.
C6_Witness ==
    /\ resp.op = "verify"
    /\ ~resp.authed
    /\ resp.status = 401
    /\ IsIssued(resp.token)
    /\ IsWrite(resp.token)
    /\ Live(sync_cache, JtiKey(JtiOf(resp.token)), now)
    /\ _decode_and_validate_sfu_jwt(resp.token, now).ok

----------------------------------------------------------------------------
(* Properties of the expiry check.                                         *)

HasExp(tok) == Get(tok.claims, "exp") # NoneV
ExpIntOf(tok) == IntOf(Get(tok.claims, "exp"))

\* exp is there, reads as an integer, and exp plus the skew has passed
PastExpiry(tok) ==
    /\ HasExp(tok)
    /\ ExpIntOf(tok).ok
    /\ now >= ExpIntOf(tok).n + SFU_TOKEN_CLOCK_SKEW_SECONDS

\* good in everything but, possibly, exp: signed with the key, no nbf ahead
\* of the clock, the issuer, a known type, a subject, a jti if it is a
\* write token
GoodButForExp(tok) ==
    /\ tok.sig = "oct_key"
    /\ Get(tok.claims, "nbf") = NoneV
          \/ now + SFU_TOKEN_CLOCK_SKEW_SECONDS >= IntOf(Get(tok.claims, "nbf")).n
    /\ Get(tok.claims, "iss") = StrV(SFU_TOKEN_ISSUER)
    /\ Get(tok.claims, "type") \in {TypeRead, TypeWrite, TypeLegacy}
    /\ GoodJti(tok) \/ IsRead(tok)
    /\ Truthy(Get(tok.claims, "sub")) /\ IsStr(Get(tok.claims, "sub"))

\* C11: a verify with the configured secret of a token whose exp is missing,
\* or whose exp plus the 5s skew has been reached, is refused with 401
\* whatever its signature and whether or not its marker is in the store;
\* "jwt expired" is answered only once exp + 5 has been reached, and a read
\* token good in every other respect is accepted while now < exp + 5.
C11_ExpiryWithSkew ==
    (resp.op = "verify" /\ resp.authed) =>
        /\ (~HasExp(resp.token) \/ PastExpiry(resp.token)) => resp.status = 401
        /\ resp.detail = "jwt expired" => PastExpiry(resp.token)
        /\ resp.detail = "missing exp" => ~HasExp(resp.token)
        /\ (/\ GoodButForExp(resp.token)
            /\ IsRead(resp.token)
            /\ HasExp(resp.token)
            /\ ExpIntOf(resp.token).ok
            /\ ~PastExpiry(resp.token)) => resp.status = 200

\* C11 witness: a write token with a good signature whose exp + 5 has just
\* been reached was refused as expired while its marker was in the store.
C11_Witness ==
    /\ resp.op = "verify"
    /\ resp.authed
    /\ resp.token.sig = "oct_key"
    /\ IsWrite(resp.token)
    /\ GoodJti(resp.token)
    /\ ExpIntOf(resp.token).n + SFU_TOKEN_CLOCK_SKEW_SECONDS = now
    /\ Live(sync_cache, JtiKey(JtiOf(resp.token)), now)
    /\ resp.status = 401
    /\ resp.detail = "jwt expired"

----------------------------------------------------------------------------
(* Properties of the room registry.                                        *)

\* the record of room n was written by an upsert and its TTL has not run out
Registered(n) ==
    /\ registry[n].by = "upsert"
    /\ now < registry[n].at + SFU_ROOM_TTL_SECONDS

\* no writer's record is under n: never written, or deleted since
Unregistered(n) == registry[n].by \in {"none", "deleted"}

\* the record carries the occupancy, capacity, password flag, node id and
\* URL of the request body
CarriesBody(rec, body) ==
    /\ rec.current = IntV(body.current)
    /\ rec.max = IntV(body.max)
    /\ rec.hasPassword = BoolV(body.hasPassword)
    /\ rec.nodeId = OptV(body.nodeId)
    /\ rec.url = OptV(body.url)

\* a call of a relay node that presented the secret has just returned with
\* an answer from the store
Answered(op) == resp.op = op /\ resp.authed /\ resp.status # 500

\* C12: calls made one after the other: once a room has been upserted,
\* resolve of its name returns the five fields of the last upsert and list
\* contains the name; once it has been deleted, resolve answers 404 and list
\* does not contain the name.
C12_RoomLifecycle ==
    /\ (Answered("resolve") /\ Strip(resp.room) # <<>>) =>
          LET n == Strip(resp.room)
          IN  /\ Registered(n) =>
                    /\ resp.status = 200
                    /\ CarriesBody(resp.body, registry[n].body)
                    /\ resp.body.room_name = StrV(n)
              /\ Unregistered(n) => resp.status = 404
    /\ (Answered("list") /\ resp.detail = "") =>
          \A n \in RoomNames :
              /\ Registered(n) =>
                    /\ n \in DOMAIN resp.out
                    /\ CarriesBody(resp.out[n], registry[n].body)
              /\ Unregistered(n) => n \notin DOMAIN resp.out

\* C12 witness: resolve of a room that had been upserted and then deleted,
\* before its TTL could have run out, answered 404.
C12_Witness ==
    /\ Answered("resolve")
    /\ Strip(resp.room) # <<>>
    /\ registry[Strip(resp.room)].by = "deleted"
    /\ now < SFU_ROOM_TTL_SECONDS
    /\ resp.status = 404

\* C13: a room written by an upsert and not deleted resolves, and is listed,
\* exactly while less than 60s have passed since its last upsert: each
\* upsert starts the 60s anew, and after 60s without one resolve answers 404
\* and list omits the room, with no delete call.
C13_SlidingTtl ==
    /\ (Answered("resolve") /\ Strip(resp.room) # <<>>) =>
          LET e == registry[Strip(resp.room)]
          IN  e.by = "upsert" =>
                 /\ resp.status = 200 <=> now < e.at + SFU_ROOM_TTL_SECONDS
                 /\ resp.status # 200 => resp.status = 404
    /\ (Answered("list") /\ resp.detail = "") =>
          \A n \in RoomNames :
              registry[n].by = "upsert" =>
                 (n \in DOMAIN resp.out <=> now < registry[n].at + SFU_ROOM_TTL_SECONDS)

\* C13 witness: a room last upserted after time 0 and never deleted since
\* stopped resolving 60s after that upsert.
C13_Witness ==
    /\ Answered("resolve")
    /\ Strip(resp.room) # <<>>
    /\ registry[Strip(resp.room)].by = "upsert"
    /\ registry[Strip(resp.room)].at > 0
    /\ now = registry[Strip(resp.room)].at + SFU_ROOM_TTL_SECONDS
    /\ resp.status = 404

\* the entries of the listing after a step that the step has read
NewEntries(before, after) ==
    {n \in DOMAIN after : n \notin DOMAIN before \/ after[n] # before[n]}

\* C14: with upserts, resolves and a list call interleaved at one instant:
\* a resolve of an upserted room returns every field of the last upsert of
\* it; every entry a list call reads carries every field of the upsert that
\* was the last one when it was read; and the record in the store is that
\* of the last upsert.
C14_WholeRecordReplaced ==
    /\ [](/\ (Answered("resolve") /\ Strip(resp.room) # <<>>) =>
                LET n == Strip(resp.room)
                IN  registry[n].by = "upsert" =>
                       /\ resp.status = 200
                       /\ CarriesBody(resp.body, registry[n].body)
          /\ \A n \in RoomNames :
                registry[n].by = "upsert" =>
                   /\ Live(sync_cache, _room_key(n), now)
                   /\ JsonLoads(sync_cache[_room_key(n)].val).ok
                   /\ CarriesBody(JsonLoads(sync_cache[_room_key(n)].val).v.d,
                                  registry[n].body))
    /\ [][/\ (listing.pc = "mget" /\ listing'.pc = "scan") =>
                \A n \in NewEntries(listing.out, listing'.out) :
                    /\ registry[n].by = "upsert"
                    /\ CarriesBody(listing'.out[n], registry[n].body)
          /\ (listing.pc = "mget" /\ resp'.op = "list" /\ resp'.status = 200) =>
                \A n \in NewEntries(listing.out, resp'.out) :
                    /\ registry[n].by = "upsert"
                    /\ CarriesBody(resp'.out[n], registry[n].body)]_vars

\* C14 witness: a list call in flight has read the record of one upsert of a
\* room, and a resolve has since returned the record of a later upsert of
\* the same room that differs from it.
C14_Witness ==
    /\ Answered("resolve")
    /\ resp.status = 200
    /\ listing.pc = "scan"
    /\ Strip(resp.room) \in DOMAIN listing.out
    /\ ~CarriesBody(listing.out[Strip(resp.room)], registry[Strip(resp.room)].body)
    /\ CarriesBody(resp.body, registry[Strip(resp.room)].body)

\* C15: a list call that got its answers from the store returns, whatever is
\* stored under the room keys: a value that is empty, not JSON, or JSON but
\* not an object is left out, and every room whose record is an upsert's is
\* in the result.
C15_ListSkipsUndecodable ==
    (resp.op = "list" /\ resp.authed /\ resp.detail # "store") =>
        /\ resp.status = 200
        /\ \A n \in RoomNames : Registered(n) => n \in DOMAIN resp.out

\* C16: a delete with the secret and a name that is not blank returns
\* ok = true whether or not the room is there (unless the store gives no
\* answer: 500, nothing changed); it removes the key of that room and no
\* other; and a second delete of the same room leaves the store as the first
\* one left it.
C16_DeleteIdempotent ==
    [][(resp'.op = "delete" /\ resp'.authed /\ Strip(resp'.room) # <<>>) =>
          LET key == _room_key(Strip(resp'.room))
          IN  /\ resp'.status \in {200, 500}
              /\ resp'.status = 200 =>
                    /\ resp'.body.ok
                    /\ DOMAIN sync_cache' = (DOMAIN sync_cache) \ {key}
                    /\ \A k \in DOMAIN sync_cache' : sync_cache'[k] = sync_cache[k]
              /\ resp'.status = 500 => sync_cache' = sync_cache
              /\ (/\ resp'.status = 200
                  /\ resp.op = "delete"
                  /\ resp.status = 200
                  /\ Strip(resp.room) = Strip(resp'.room)) => sync_cache' = sync_cache]_vars

\* C16 witness: the delete of a room that was never written returned ok and
\* left the record of the other room in the store.
C16_Witness ==
    /\ Answered("delete")
    /\ resp.status = 200
    /\ resp.body.ok
    /\ Strip(resp.room) = <<"q">>
    /\ registry[<<"q">>].by = "none"
    /\ Registered(<<"r">>)
    /\ Live(sync_cache, _room_key(<<"r">>), now)

----------------------------------------------------------------------------
(* Properties of the requests that are refused.                            *)

\* C17: a mint with a token_type other than read and write is refused with
\* 400: it returns no token, draws no jti, makes no store operation and
\* leaves the store and the set of issued tokens as they were.
C17_InvalidCapabilityRefused ==
    [][(resp'.op = "mint" /\ resp'.kind \notin {"read", "write"}) =>
          /\ resp'.status = 400
          /\ resp'.token = NoTok
          /\ resp'.ops = 0
          /\ sync_cache' = sync_cache
          /\ issued' = issued
          /\ nextUuid' = nextUuid]_vars

\* C17 witness: a mint(admin) was refused while the store held the marker of
\* a write token.
C17_Witness ==
    /\ resp.op = "mint"
    /\ resp.kind = "admin"
    /\ resp.status = 400
    /\ resp.token = NoTok
    /\ \E i \in issued : IsWrite(i.tok) /\ Live(sync_cache, JtiKey(JtiOf(i.tok)), now)

\* the token fails the structural / claims validation at the current time:
\* a foreign signature, an nbf that is premature, an exp that is missing or
\* has passed, a wrong issuer, an unrecognized type, or a subject that is
\* empty or not a string
StructurallyInvalid(tok) ==
    LET c == tok.claims
    IN  \/ tok.sig # "oct_key"
        \/ /\ Get(c, "nbf") # NoneV
           /\ \/ ~IntOf(Get(c, "nbf")).ok
              \/ now + SFU_TOKEN_CLOCK_SKEW_SECONDS < IntOf(Get(c, "nbf")).n
        \/ ~HasExp(tok)
        \/ ~ExpIntOf(tok).ok
        \/ PastExpiry(tok)
        \/ Get(c, "iss") # StrV(SFU_TOKEN_ISSUER)
        \/ Get(c, "type") \notin {TypeRead, TypeWrite, TypeLegacy}
        \/ ~IsStr(Get(c, "sub"))
        \/ Get(c, "sub").s = <<>>

\* C18: a verify with the secret of a token that fails the validation is
\* refused with 401 without a store operation: the store, the markers
\* consumed and the calls in flight are as before, and no call in flight
\* holds such a token.
C18_ValidationBeforeStore ==
    /\ [](\A n \in Nodes : calls[n] # Idle => ~StructurallyInvalid(calls[n].tok))
    /\ [][(resp'.op = "verify" /\ resp'.authed /\ StructurallyInvalid(resp'.token)) =>
             /\ resp'.status = 401
             /\ resp'.ops = 0
             /\ sync_cache' = sync_cache
             /\ consumed' = consumed
             /\ calls' = calls]_vars

\* C18 witness: a consuming verify of a write token with a good signature
\* and a wrong issuer, whose jti is that of a marker in the store, was
\* refused and the marker is still there.
C18_Witness ==
    /\ resp.op = "verify"
    /\ resp.authed
    /\ resp.consume
    /\ resp.token.sig = "oct_key"
    /\ IsWrite(resp.token)
    /\ Get(resp.token.claims, "iss") # StrV(SFU_TOKEN_ISSUER)
    /\ Live(sync_cache, JtiKey(JtiOf(resp.token)), now)
    /\ resp.status = 401
    /\ resp.detail = "invalid issuer"
    /\ resp.ops = 0

\* C19: while the secret is not configured (empty, or whitespace only) every
\* internal operation answers 503, whatever header the caller sends: no
\* caller is authenticated, no call goes on to the store, no marker is
\* consumed and no room record is written.
C19_UnconfiguredIsUnavailable ==
    Strip(ROMM_SFU_INTERNAL_SECRET) = <<>> =>
        /\ resp.op \in InternalOps => (resp.status = 503 /\ resp.ops = 0)
        /\ \A n \in Nodes : calls[n] = Idle
        /\ listing = NotListing
        /\ \A j \in AllJtis : consumed[j] = 0
        /\ \A n \in RoomNames :
              registry[n].by = "none" /\ _room_key(n) \notin DOMAIN sync_cache

\* C19 witness: with a secret of whitespace only, the verify of a minted
\* write token whose marker is in the store was answered 503.
C19_Witness ==
    /\ ROMM_SFU_INTERNAL_SECRET = <<" ">>
    /\ resp.op = "verify"
    /\ resp.status = 503
    /\ IsIssued(resp.token)
    /\ IsWrite(resp.token)
    /\ Live(sync_cache, JtiKey(JtiOf(resp.token)), now)

\* C20: the marker of a minted write token is in the store for less than 30s
\* from the mint; once the 30s have passed a verify of the token with the
\* secret, consuming or not, is refused with 401 whenever the store answers,
\* also while exp plus the 5s skew has not passed.
C20_MarkerExpiresWithTtl ==
    /\ \A i \in issued :
          (IsWrite(i.tok) /\ Live(sync_cache, JtiKey(JtiOf(i.tok)), now))
              => now < IatOf(i.tok) + SFU_WRITE_TOKEN_TTL_SECONDS
    /\ (VerifiedWrite /\ MarkerExpired(resp.token) /\ resp.status # 500)
          => resp.status = 401

\* C20 witness: a write token that was never consumed and that still passes
\* the validation (exp + 5 not reached) was refused because its marker had
\* expired from the store.
C20_Witness ==
    /\ VerifiedWrite
    /\ consumed[JtiOf(resp.token)] = 0
    /\ MarkerExpired(resp.token)
    /\ _decode_and_validate_sfu_jwt(resp.token, now).ok
    /\ resp.status = 401
    /\ resp.ops = 1

----------------------------------------------------------------------------
(* Properties of the listing loop.                                         *)

ListRunning == listing.pc # "idle"

\* C21: the list loop goes on scanning only while the cursor is not 0 (slots
\* are left), and a list call that has begun returns in the end, whatever
\* the batches hold and while rooms are upserted, deleted and expire.
C21_ListTerminates ==
    /\ [](listing.pc = "scan" => listing.left # {})
    /\ ListRunning ~> ~ListRunning

\* C21 witness: a list call is in flight, between two scans, and a room it
\* has read has been deleted since and another one has expired.
C21_Witness ==
    /\ listing.pc = "scan"
    /\ listing.left # {}
    /\ \E n \in DOMAIN listing.out : registry[n].by = "deleted"
    /\ \E n \in RoomNames :
          registry[n].by = "upsert" /\ now >= registry[n].at + SFU_ROOM_TTL_SECONDS

----------------------------------------------------------------------------
(* Properties of the markers.                                              *)

\* C22: a verify that answers 401 leaves the store as it was: a marker is
\* removed only by a consuming verify that returns 200, also when the
\* marker is a record whose subject or jti is not the token's.
C22_RefusedVerifyKeepsStore ==
    [][/\ (resp'.op = "verify" /\ resp'.status = 401) => sync_cache' = sync_cache
       /\ (resp'.op = "verify" /\ sync_cache' # sync_cache)
             => (resp'.consume /\ resp'.status = 200)]_vars

\* the marker keys other than k that are in the store before the step are
\* there, unchanged, after it
OthersKept(k) ==
    \A x \in (DOMAIN sync_cache) \ {k} :
        x \in DOMAIN sync_cache' /\ sync_cache'[x] = sync_cache[x]

\* C23: a mint(write) puts its marker under a jti that no token issued
\* before carries and no key in the store has, and leaves the other keys as
\* they are; a verify changes no key but the one of its own jti; and a
\* verify of a write token that has not been consumed and whose marker has
\* not expired succeeds whenever the store answers, whatever has been
\* consumed besides.
C23_MarkersIndependent ==
    /\ [][/\ (resp'.op = "mint" /\ resp'.kind = "write" /\ resp'.status = 200) =>
                /\ JtiKey(JtiOf(resp'.token)) \notin DOMAIN sync_cache
                /\ \A i \in issued : JtiOf(i.tok) # JtiOf(resp'.token)
                /\ OthersKept(JtiKey(JtiOf(resp'.token)))
          /\ resp'.op = "verify" => OthersKept(JtiKey(JtiOf(resp'.token)))]_vars
    /\ []((/\ VerifiedWrite
           /\ consumed[JtiOf(resp.token)] = 0
           /\ ~MarkerExpired(resp.token)
           /\ resp.status # 500) => resp.status = 200)

\* C23 witness: a write token was verified with success after another write
\* token had been consumed.
C23_Witness ==
    /\ VerifiedWrite
    /\ resp.status = 200
    /\ consumed[JtiOf(resp.token)] = 0
    /\ \E i \in issued :
          /\ IsWrite(i.tok)
          /\ i.tok # resp.token
          /\ consumed[JtiOf(i.tok)] = 1

\* the keys in the store under the room prefix
RoomKeys == {k \in DOMAIN sync_cache : Head(k) = SFU_ROOM_REDIS_KEY_PREFIX}

\* C24: with upserts and deletes as the only writers: every key under the
\* room prefix is the prefix and a name that is not empty and has no
\* whitespace at either end, and its record embeds that name; an upsert with
\* a blank name is refused with 400 and leaves the store as it is; and list
\* returns each room under the name resolve finds it by.
C24_KeysAreStrippedNames ==
    /\ [](/\ \A k \in RoomKeys :
                LET n == Tail(k)
                    rec == JsonLoads(sync_cache[k].val)
                IN  /\ n # <<>>
                    /\ Strip(n) = n
                    /\ rec.ok
                    /\ rec.v.t = "dict"
                    /\ Get(rec.v.d, "room_name") = StrV(n)
          /\ (resp.op = "list" /\ resp.status = 200) =>
                \A n \in DOMAIN resp.out :
                    /\ n \in RoomNames
                    /\ resp.out[n].room_name = StrV(n)
          /\ (Answered("resolve") /\ resp.status = 200) =>
                resp.body.room_name = StrV(Strip(resp.room)))
    /\ [][(resp'.op = "upsert" /\ resp'.authed /\ Strip(resp'.room) = <<>>) =>
             /\ resp'.status = 400
             /\ sync_cache' = sync_cache]_vars

\* C24 witness: an upsert sent with a name that has leading whitespace was
\* stored under the stripped name.
C24_Witness ==
    /\ Answered("upsert")
    /\ resp.status = 200
    /\ resp.room = <<" ", "r">>
    /\ _room_key(<<"r">>) \in RoomKeys
    /\ _room_key(<<" ", "r">>) \notin RoomKeys

====
